---------------------------- MODULE Spec2Model ----------------------------
(***************************************************************************)
(* Versioning-state engine of lib/api/apiUtils/object/versioning.js:       *)
(* getMasterState, processVersioningState and the versioningPreprocessing  *)
(* pipeline (async.series of storeVersion and deleteNullVersion), run      *)
(* against a metadata store holding one object's master key and version    *)
(* keys.                                                                   *)
(*                                                                         *)
(* JavaScript values: a missing scalar field is the string Undef; a        *)
(* missing object (no objMD, no storeOptions, no version record) is the    *)
(* record NoObject; a location is a tagged record so that a single         *)
(* location and an array of locations stay distinct values.  A key that is *)
(* absent from an options object and a key present with value undefined    *)
(* are the same value here.                                                *)
(***************************************************************************)
EXTENDS Integers, Sequences, FiniteSets, TLC

VARIABLES
    vCfg,        \* bucketMD.getVersioningConfiguration(): NoObject or [Status |-> s]
    master,      \* metadata store: the record under the object's master key
    versions,    \* metadata store: version id -> record under that version key
    nPuts,       \* number of PUT requests started so far
    reqId,       \* per request: its number, naming the data it uploads
    pc,          \* per request: position in versioningPreprocessing
    objMD,       \* per request: the objMD argument
    mst,         \* per request: getMasterState(objMD)
    options,     \* per request: the options object handed to the callback
    storeOptions,\* per request: storeOptions of the decision, or NoObject
    delOptions,  \* per request: delOptions of the decision, or NoObject
    nullData,    \* per request: nullDataToDelete of _deleteNullVersionMD
    err,         \* per request: the error argument of the final callback
    calls,       \* per request: the metadata-store calls issued, with results
    inMD,        \* pure-function harness: an object record
    inStatus,    \* pure-function harness: a versioning status
    inVCfg,      \* pure-function harness: a bucket versioning configuration
    inReqVersionId, \* pure-function harness: the version id a DELETE requests
    inParams,    \* pure-function harness: metadataStoreParams of the caller
    inNow,       \* pure-function harness: the clock, Date.now()
    outState     \* pure-function harness: the decision computed from them

vars == <<vCfg, master, versions, nPuts, reqId, pc, objMD, mst, options, storeOptions,
          delOptions, nullData, err, calls, inMD, inStatus, inVCfg,
          inReqVersionId, inParams, inNow, outState>>

storeVars == <<master, versions>>
reqVars == <<reqId, pc, objMD, mst, options, storeOptions, delOptions, nullData, err, calls>>
pureVars == <<inMD, inStatus, inVCfg, inReqVersionId, inParams, inNow, outState>>

----------------------------------------------------------------------------
(* Bounds *)

\* PUT requests started in one behaviour
MaxPuts == 4

----------------------------------------------------------------------------
(* JavaScript values *)

Undef == "undefined"
True == "true"
NoObject == [none |-> TRUE]
None == "null"

\* JavaScript truthiness of a scalar field
Truthy(v) == v \notin {Undef, None, "", "false"}

NoLoc == [tag |-> "undefined", els |-> <<>>]
Single(l) == [tag |-> "single", els |-> <<l>>]
Arr(s) == [tag |-> "array", els |-> s]

\* truthiness of a location value: undefined is falsy, any object or array is truthy
TruthyLoc(loc) == loc.tag # "undefined"

\* Array.isArray(location) ? location : [location]
AsArray(loc) == IF loc.tag = "array" THEN loc ELSE Arr(loc.els)

\* the data locations a dataToDelete / location value lists
LocSet(loc) == {loc.els[k] : k \in 1..Len(loc.els)}

\* versionIdUtils.getInfVid(config.replicationGroupId): the reserved id of
\* null versions created before versioning was configured
nonVersionedObjId == "INF"

VidNames == <<"V1", "V2", "V3", "V4", "V5", "V6", "V7", "V8">>
LocNames == <<"L1", "L2", "L3", "L4", "L5", "L6", "L7", "L8">>
PartNames == <<"P1", "P2", "P3", "P4", "P5", "P6", "P7", "P8">>

VersionIds == {nonVersionedObjId} \cup {VidNames[n] : n \in 1..MaxPuts}

Procs == {1, 2}

----------------------------------------------------------------------------
(* getMasterState *)

\* getMasterState keeping a single location as it is stored
getMasterState_NoNormalize(md) ==
    IF md = NoObject
    THEN [exists |-> Undef, versionId |-> Undef, uploadId |-> Undef,
          isNull |-> Undef, nullVersionId |-> Undef, nullUploadId |-> Undef,
          objLocation |-> NoLoc]
    ELSE [exists |-> True,
          versionId |-> md.versionId,
          uploadId |-> md.uploadId,
          isNull |-> md.isNull,
          nullVersionId |-> md.nullVersionId,
          nullUploadId |-> md.nullUploadId,
          objLocation |-> md.location]

getMasterState(md) ==
    IF md = NoObject
    THEN [exists |-> Undef, versionId |-> Undef, uploadId |-> Undef,
          isNull |-> Undef, nullVersionId |-> Undef, nullUploadId |-> Undef,
          objLocation |-> NoLoc]
    ELSE [exists |-> True,
          versionId |-> md.versionId,
          uploadId |-> md.uploadId,
          isNull |-> md.isNull,
          nullVersionId |-> md.nullVersionId,
          nullUploadId |-> md.nullUploadId,
          objLocation |-> IF TruthyLoc(md.location) THEN AsArray(md.location)
                          ELSE NoLoc]

----------------------------------------------------------------------------
(* processVersioningState *)

EmptyOptions ==
    [versionId |-> Undef, isNull |-> Undef, versioning |-> Undef,
     nullVersionId |-> Undef, nullUploadId |-> Undef, dataToDelete |-> NoLoc]

\* suspendedOverwriteNull taking the replay id from nullUploadId, as the
\* versioned branch does
suspendedOverwriteNull_WrongReplayId(m) ==
    LET opts == [EmptyOptions EXCEPT !.versionId = "",
                                     !.isNull = True,
                                     !.dataToDelete = m.objLocation]
    IN  IF Truthy(m.isNull)
        THEN [options |-> opts,
              storeOptions |-> NoObject,
              delOptions |-> [versionId |-> m.versionId,
                              replayId |-> IF Truthy(m.nullUploadId)
                                           THEN m.nullUploadId ELSE Undef]]
        ELSE [options |-> opts, storeOptions |-> NoObject, delOptions |-> NoObject]

\* lines 172-185: master absent, unversioned or a null version; Suspended
suspendedOverwriteNull(m) ==
    LET opts == [EmptyOptions EXCEPT !.versionId = "",
                                     !.isNull = True,
                                     !.dataToDelete = m.objLocation]
    IN  IF Truthy(m.isNull)
        THEN [options |-> opts,
              storeOptions |-> NoObject,
              delOptions |-> [versionId |-> m.versionId,
                              replayId |-> IF Truthy(m.uploadId)
                                           THEN m.uploadId ELSE Undef]]
        ELSE [options |-> opts, storeOptions |-> NoObject, delOptions |-> NoObject]

\* enabledCreateFromNull storing every master under the reserved id
enabledCreateFromNull_AlwaysReserved(m) ==
    IF Truthy(m.exists)
    THEN [options |-> [EmptyOptions EXCEPT
                         !.versioning = True,
                         !.nullVersionId = nonVersionedObjId,
                         !.nullUploadId =
                             IF Truthy(m.isNull) /\ Truthy(m.uploadId)
                             THEN m.uploadId ELSE Undef],
          storeOptions |-> [versionId |-> nonVersionedObjId, isNull |-> True],
          delOptions |-> NoObject]
    ELSE [options |-> [EmptyOptions EXCEPT !.versioning = True],
          storeOptions |-> NoObject, delOptions |-> NoObject]

\* lines 186-202: master absent, unversioned or a null version; Enabled
enabledCreateFromNull(m) ==
    IF Truthy(m.exists)
    THEN LET versionId == IF Truthy(m.isNull) THEN m.versionId
                          ELSE nonVersionedObjId
         IN  [options |-> [EmptyOptions EXCEPT
                             !.versioning = True,
                             !.nullVersionId = versionId,
                             !.nullUploadId =
                                 IF Truthy(m.isNull) /\ Truthy(m.uploadId)
                                 THEN m.uploadId ELSE Undef],
              storeOptions |-> [versionId |-> versionId, isNull |-> True],
              delOptions |-> NoObject]
    ELSE [options |-> [EmptyOptions EXCEPT !.versioning = True],
          storeOptions |-> NoObject, delOptions |-> NoObject]

\* suspendedOverwriteVersioned reclaiming the master's data, as the
\* unversioned branch does
suspendedOverwriteVersioned_ReclaimsMaster(m) ==
    LET opts == [EmptyOptions EXCEPT !.versionId = "", !.isNull = True,
                                     !.dataToDelete = m.objLocation]
    IN  IF m.nullVersionId = Undef
        THEN [options |-> opts, storeOptions |-> NoObject, delOptions |-> NoObject]
        ELSE [options |-> opts,
              storeOptions |-> NoObject,
              delOptions |-> [versionId |-> m.nullVersionId,
                              replayId |-> IF Truthy(m.nullUploadId)
                                           THEN m.nullUploadId ELSE Undef]]

\* suspendedOverwriteVersioned never retiring the null version the master
\* references
suspendedOverwriteVersioned_KeepsNull(m) ==
    [options |-> [EmptyOptions EXCEPT !.versionId = "", !.isNull = True],
     storeOptions |-> NoObject, delOptions |-> NoObject]

\* lines 205-217: master versioned and not a null version; Suspended
suspendedOverwriteVersioned(m) ==
    LET opts == [EmptyOptions EXCEPT !.versionId = "", !.isNull = True]
    IN  IF m.nullVersionId = Undef
        THEN [options |-> opts, storeOptions |-> NoObject, delOptions |-> NoObject]
        ELSE [options |-> opts,
              storeOptions |-> NoObject,
              delOptions |-> [versionId |-> m.nullVersionId,
                              replayId |-> IF Truthy(m.nullUploadId)
                                           THEN m.nullUploadId ELSE Undef]]

\* enabledCreateFromVersioned dropping the reference to the null version
enabledCreateFromVersioned_DropsNull(m) ==
    [options |-> [EmptyOptions EXCEPT !.versioning = True],
     storeOptions |-> NoObject, delOptions |-> NoObject]

\* lines 218-224: master versioned and not a null version; Enabled
enabledCreateFromVersioned(m) ==
    [options |-> [EmptyOptions EXCEPT
                    !.versioning = True,
                    !.nullVersionId = m.nullVersionId,
                    !.nullUploadId = IF Truthy(m.nullUploadId)
                                     THEN m.nullUploadId ELSE Undef],
     storeOptions |-> NoObject, delOptions |-> NoObject]

\* processVersioningState taking the Enabled branches for 'Enabled' only
processVersioningState_EnabledOnly(m, vstat) ==
    IF m.versionId = Undef \/ Truthy(m.isNull)
    THEN IF vstat # "Enabled"
         THEN suspendedOverwriteNull(m)
         ELSE enabledCreateFromNull(m)
    ELSE IF vstat # "Enabled"
         THEN suspendedOverwriteVersioned(m)
         ELSE enabledCreateFromVersioned(m)

processVersioningState(m, vstat) ==
    IF m.versionId = Undef \/ Truthy(m.isNull)
    THEN IF vstat = "Suspended"
         THEN suspendedOverwriteNull(m)
         ELSE enabledCreateFromNull(m)
    ELSE IF vstat = "Suspended"
         THEN suspendedOverwriteVersioned(m)
         ELSE enabledCreateFromVersioned(m)

----------------------------------------------------------------------------
(* preprocessingVersioningDelete *)

\* the string 'null' of a request, as opposed to the value null
StrNull == "'null'"

EmptyDeleteOptions ==
    [deleteData |-> Undef, versionId |-> Undef, isNull |-> Undef,
     replayId |-> Undef]

\* deleteSpecificVersion without the replay id
deleteSpecificVersion_NoReplayId(md, reqVersionId) ==
    [err |-> None,
     options |-> [EmptyDeleteOptions EXCEPT !.deleteData = True,
                                            !.versionId = reqVersionId]]

\* lines 347-355: a version id other than 'null' is requested
deleteSpecificVersion(md, reqVersionId) ==
    [err |-> None,
     options |-> [EmptyDeleteOptions EXCEPT
                    !.deleteData = True,
                    !.versionId = reqVersionId,
                    !.replayId = IF Truthy(md.uploadId) THEN md.uploadId
                                 ELSE Undef]]

\* deleteNullVersionTarget succeeding with nothing to delete when there is
\* no null version
deleteNullVersionTarget_NoError(md) ==
    IF md.versionId = Undef
    THEN [err |-> None,
          options |-> [EmptyDeleteOptions EXCEPT !.deleteData = True]]
    ELSE IF Truthy(md.isNull)
    THEN [err |-> None,
          options |-> [EmptyDeleteOptions EXCEPT
                         !.deleteData = True,
                         !.versionId = md.versionId,
                         !.isNull = True,
                         !.replayId = IF Truthy(md.uploadId) THEN md.uploadId
                                      ELSE Undef]]
    ELSE IF Truthy(md.nullVersionId)
    THEN [err |-> None,
          options |-> [EmptyDeleteOptions EXCEPT
                         !.deleteData = True,
                         !.versionId = md.nullVersionId,
                         !.replayId = IF Truthy(md.nullUploadId)
                                      THEN md.nullUploadId ELSE Undef]]
    ELSE [err |-> None, options |-> EmptyDeleteOptions]

\* deleteNullVersionTarget looking at nullVersionId before isNull
deleteNullVersionTarget_ReferenceFirst(md) ==
    IF md.versionId = Undef
    THEN [err |-> None,
          options |-> [EmptyDeleteOptions EXCEPT !.deleteData = True]]
    ELSE IF Truthy(md.nullVersionId)
    THEN [err |-> None,
          options |-> [EmptyDeleteOptions EXCEPT
                         !.deleteData = True,
                         !.versionId = md.nullVersionId,
                         !.replayId = IF Truthy(md.nullUploadId)
                                      THEN md.nullUploadId ELSE Undef]]
    ELSE IF Truthy(md.isNull)
    THEN [err |-> None,
          options |-> [EmptyDeleteOptions EXCEPT
                         !.deleteData = True,
                         !.versionId = md.versionId,
                         !.isNull = True,
                         !.replayId = IF Truthy(md.uploadId) THEN md.uploadId
                                      ELSE Undef]]
    ELSE [err |-> "NoSuchKey", options |-> NoObject]

\* lines 356-387: the 'null' version is requested
deleteNullVersionTarget(md) ==
    IF md.versionId = Undef
    THEN [err |-> None,
          options |-> [EmptyDeleteOptions EXCEPT !.deleteData = True]]
    ELSE IF Truthy(md.isNull)
    THEN [err |-> None,
          options |-> [EmptyDeleteOptions EXCEPT
                         !.deleteData = True,
                         !.versionId = md.versionId,
                         !.isNull = True,
                         !.replayId = IF Truthy(md.uploadId) THEN md.uploadId
                                      ELSE Undef]]
    ELSE IF Truthy(md.nullVersionId)
    THEN [err |-> None,
          options |-> [EmptyDeleteOptions EXCEPT
                         !.deleteData = True,
                         !.versionId = md.nullVersionId,
                         !.replayId = IF Truthy(md.nullUploadId)
                                      THEN md.nullUploadId ELSE Undef]]
    ELSE [err |-> "NoSuchKey", options |-> NoObject]

\* the error and the options preprocessingVersioningDelete calls back with
preprocessingVersioningDelete(cfg, md, reqVersionId) ==
    IF cfg = NoObject
    THEN [err |-> None,
          options |-> [EmptyDeleteOptions EXCEPT !.deleteData = True]]
    ELSE IF Truthy(reqVersionId) /\ reqVersionId # StrNull
    THEN deleteSpecificVersion(md, reqVersionId)
    ELSE IF Truthy(reqVersionId)
    THEN deleteNullVersionTarget(md)
    ELSE [err |-> None, options |-> EmptyDeleteOptions]

----------------------------------------------------------------------------
(* overwritingVersioning *)

\* Times are JavaScript numbers of milliseconds.  A time t is held as
\* [day |-> t div oneDay, ms |-> t mod oneDay], which keeps the arithmetic
\* exact; a number n is [n |-> n], and an undefined number is NoObject.
oneDay == 24 * 60 * 60 * 1000

Num(n) == [n |-> n]

\* days * oneDay; NaN (NoObject) when days is undefined
DaysToMs(days) == IF days = NoObject THEN NoObject ELSE [day |-> days.n, ms |-> 0]

\* a + b; NaN when either is NaN
PlusMs(a, b) ==
    IF a = NoObject \/ b = NoObject THEN NoObject
    ELSE [day |-> a.day + b.day + ((a.ms + b.ms) \div oneDay),
          ms |-> (a.ms + b.ms) % oneDay]

\* the largest time value of a Date is 8.64e15 ms, that is 10^8 days
MaxDateDays == 100000000

InvalidDate == [invalid |-> TRUE]

\* new Date(t): an Invalid Date when t is NaN or beyond the range of Dates
NewDate(t) ==
    IF t = NoObject THEN InvalidDate
    ELSE IF t.day < MaxDateDays \/ (t.day = MaxDateDays /\ t.ms = 0)
         THEN [time |-> t]
         ELSE InvalidDate

\* objMD.archive?.field
ArchiveField(md, f) ==
    IF md.archive = NoObject
    THEN (IF f = "archiveInfo" THEN Undef ELSE NoObject)
    ELSE md.archive[f]

\* lines 409-417: the archive object written into metadataStoreParams
restoredArchive(md, now) ==
    LET days == ArchiveField(md, "restoreRequestedDays")
    IN  [archiveInfo |-> ArchiveField(md, "archiveInfo"),
         restoreRequestedAt |-> ArchiveField(md, "restoreRequestedAt"),
         restoreRequestedDays |-> ArchiveField(md, "restoreRequestedDays"),
         restoreCompletedAt |-> NewDate(now),
         restoreWillExpireAt |-> NewDate(PlusMs(now, DaysToMs(days)))]

\* lines 421-426: the options returned
overwriteOptions(md) ==
    [versionId |-> IF Truthy(md.versionId) THEN md.versionId ELSE Undef,
     isNull |-> md.isNull,
     nullVersionId |-> md.nullVersionId]

\* overwritingVersioning merging the returned options into the caller's
\* parameters as well
overwritingVersioning_MergesOptions(md, params, now) ==
    [params |-> [params EXCEPT !.creationTime = md.creationTime,
                               !.lastModifiedDate = md.lastModified,
                               !.updateMicroVersionId = True,
                               !.archive = restoredArchive(md, now),
                               !.versionId = overwriteOptions(md).versionId],
     options |-> overwriteOptions(md)]

\* lines 402-429: metadataStoreParams after the call, and the options
\* returned
overwritingVersioning(md, params, now) ==
    [params |-> [params EXCEPT !.creationTime = md.creationTime,
                               !.lastModifiedDate = md.lastModified,
                               !.updateMicroVersionId = True,
                               !.archive = restoredArchive(md, now)],
     options |-> overwriteOptions(md)]

----------------------------------------------------------------------------
(* The metadata store (lib/metadata/wrapper, outside the sources at hand): *)
(* get / put / delete of the object's records by version id.               *)

VidOf(md) == IF md = NoObject THEN Undef ELSE md.versionId

\* the record a version id addresses: its version key, or the master key
\* when the master carries that version id
mdLookup(v) ==
    IF v \in VersionIds /\ versions[v] # NoObject THEN versions[v]
    ELSE IF master # NoObject /\ VidOf(master) = v THEN master
    ELSE NoObject

\* getObjectMD(bucket, key, {versionId: v}): the error it calls back with
mdGetErr(v) == IF mdLookup(v) = NoObject THEN "NoSuchKey" ELSE None

\* deleteObjectMD(bucket, key, {versionId: v}): the error it calls back with
mdDeleteErr(v) == IF mdLookup(v) = NoObject THEN "NoSuchKey" ELSE None

\* deleteObjectMD: the store after a successful delete of version id v
mdDeleteVersions(v) ==
    IF v \in VersionIds THEN [versions EXCEPT ![v] = NoObject] ELSE versions

mdDeleteMaster(v) ==
    IF master # NoObject /\ VidOf(master) = v THEN NoObject ELSE master

\* putObjectMD(bucket, key, md, {versionId: v}): writes the version key, and
\* the master key too when the master is that version (or there is none)
mdPutVersions(v, md) == [versions EXCEPT ![v] = md]

mdPutMaster(v, md) ==
    IF master = NoObject \/ VidOf(master) = v THEN md ELSE master

----------------------------------------------------------------------------
(* versioningPreprocessing: one request's run through the pipeline *)

\* errors the metadata store may call back with besides NoSuchKey
StoreFaults == {"InternalError", "ServiceUnavailable"}

LastCall(i) == calls[i][Len(calls[i])]

Issue(i, op, v, md) ==
    Append(calls[i], [op |-> op, versionId |-> v, md |-> md, res |-> "pending"])

Returned(i, res) ==
    [calls[i] EXCEPT ![Len(calls[i])].res = res]

\* versioningPreprocessing reclaiming nothing on a bucket without versioning
unversionedOptions_NoReclaim(m) == EmptyOptions

\* lines 281-284: the options of a bucket with no versioning configuration
unversionedOptions(m) == [EmptyOptions EXCEPT !.dataToDelete = m.objLocation]

\* storeVersionMD overriding the version id only
storeVersionMD_KeepsIsNull(md, so) == [md EXCEPT !.versionId = so.versionId]

\* line 293: Object.assign({}, objMD, storeOptions)
storeVersionMD(md, so) ==
    [md EXCEPT !.versionId = so.versionId, !.isNull = so.isNull]

\* _storeNullVersionMD logging the error and calling back without it
storeNullVersionErr_Swallowed(e) == None

\* lines 83-89: the error _storeNullVersionMD hands to its callback
storeNullVersionErr(e) == e

\* deleteNullVersion without the NoSuchKey exception
deleteNullVersionErr_NoAbsorb(e) == "InternalError"

\* deleteNullVersion handing the underlying error on
deleteNullVersionErr_PassThrough(e) == IF e = "NoSuchKey" THEN None ELSE e

\* lines 304-316: the error deleteNullVersion hands to next() when
\* _deleteNullVersionMD failed with e
deleteNullVersionErr(e) == IF e = "NoSuchKey" THEN None ELSE "InternalError"

\* lines 104-108: whether the null version's data is known without a read
\* _getNullVersionsToDelete reading the version record in every case
sameAsMaster_AlwaysRead(dopts, m) == FALSE

sameAsMaster(dopts, m) == dopts.versionId = m.versionId

\* lines 118-123: the data to delete of the version record read
versionDataToDelete(versionMD) ==
    IF ~TruthyLoc(versionMD.location) THEN NoLoc ELSE AsArray(versionMD.location)

\* deleteNullVersion continuing as soon as deleteObjectMD is called
awaitDeleteObjectMD_NoWait == "callback"

\* lines 137-145: deleteNullVersion continues in deleteObjectMD's callback
awaitDeleteObjectMD == "deleteObjectMD"

Quiescent(i) == pc[i] \in {"idle", "written", "failed"}

\* lines 276-287: the request reads the master state and the bucket's
\* versioning configuration, and decides
Start(i) ==
    /\ Quiescent(i)
    /\ nPuts < MaxPuts
    /\ nPuts' = nPuts + 1
    /\ reqId' = [reqId EXCEPT ![i] = nPuts + 1]
    /\ objMD' = [objMD EXCEPT ![i] = master]
    /\ LET m == getMasterState(master)
           d == IF vCfg = NoObject
                THEN [options |-> unversionedOptions(m),
                      storeOptions |-> NoObject, delOptions |-> NoObject]
                ELSE processVersioningState(m, vCfg.Status)
       IN  /\ mst' = [mst EXCEPT ![i] = m]
           /\ options' = [options EXCEPT ![i] = d.options]
           /\ storeOptions' = [storeOptions EXCEPT ![i] = d.storeOptions]
           /\ delOptions' = [delOptions EXCEPT ![i] = d.delOptions]
           /\ pc' = [pc EXCEPT ![i] = IF vCfg = NoObject THEN "callback"
                                      ELSE "storeVersion"]
    /\ nullData' = [nullData EXCEPT ![i] = NoLoc]
    /\ err' = [err EXCEPT ![i] = None]
    /\ calls' = [calls EXCEPT ![i] = <<>>]
    /\ UNCHANGED <<vCfg, storeVars, pureVars>>

\* _storeNullVersionMD calling back only when putObjectMD succeeded
storeNullVersionNext_NoCallbackOnError(e) ==
    IF e # None THEN "stalled" ELSE "deleteNullVersion"

\* lines 83-89 and async.series: _storeNullVersionMD calls back with the
\* outcome; an error ends the series, otherwise deleteNullVersion is next
storeNullVersionNext(e) ==
    IF e # None THEN "callback" ELSE "deleteNullVersion"

\* lines 289-297: storeVersion, up to the call of putObjectMD
StoreVersion(i) ==
    /\ pc[i] = "storeVersion"
    /\ IF storeOptions[i] = NoObject
       THEN /\ pc' = [pc EXCEPT ![i] = "deleteNullVersion"]
            /\ calls' = calls
       ELSE /\ pc' = [pc EXCEPT ![i] = "putObjectMD"]
            /\ calls' = [calls EXCEPT ![i] =
                           Issue(i, "put", storeOptions[i].versionId,
                                 storeVersionMD(objMD[i], storeOptions[i]))]
    /\ UNCHANGED <<vCfg, storeVars, nPuts, reqId, objMD, mst, options,
                   storeOptions, delOptions, nullData, err, pureVars>>

\* lines 83-89 and async.series: putObjectMD calls back; an error ends the
\* series, otherwise deleteNullVersion is next
PutObjectMDReturn(i, fault) ==
    /\ pc[i] = "putObjectMD"
    /\ LET c == LastCall(i)
           e == storeNullVersionErr(fault)
       IN  /\ IF fault = None
              THEN /\ versions' = mdPutVersions(c.versionId, c.md)
                   /\ master' = mdPutMaster(c.versionId, c.md)
              ELSE UNCHANGED storeVars
           /\ calls' = [calls EXCEPT ![i] =
                          Returned(i, IF fault = None THEN "ok" ELSE fault)]
           /\ err' = [err EXCEPT ![i] = e]
           /\ pc' = [pc EXCEPT ![i] = storeNullVersionNext(e)]
    /\ UNCHANGED <<vCfg, nPuts, reqId, objMD, mst, options, storeOptions,
                   delOptions, nullData, pureVars>>

\* lines 298-303, 127-128, 103-109: deleteNullVersion, up to the first
\* metadata call of _deleteNullVersionMD
DeleteNullVersion(i) ==
    /\ pc[i] = "deleteNullVersion"
    /\ IF delOptions[i] = NoObject
       THEN /\ pc' = [pc EXCEPT ![i] = "callback"]
            /\ UNCHANGED <<calls, nullData>>
       ELSE IF sameAsMaster(delOptions[i], mst[i])
            THEN /\ nullData' = [nullData EXCEPT ![i] = mst[i].objLocation]
                 /\ calls' = [calls EXCEPT ![i] =
                                Issue(i, "del", delOptions[i].versionId, NoObject)]
                 /\ pc' = [pc EXCEPT ![i] = awaitDeleteObjectMD]
            ELSE /\ calls' = [calls EXCEPT ![i] =
                                Issue(i, "get", delOptions[i].versionId, NoObject)]
                 /\ pc' = [pc EXCEPT ![i] = "getObjectMD"]
                 /\ UNCHANGED nullData
    /\ UNCHANGED <<vCfg, storeVars, nPuts, reqId, objMD, mst, options,
                   storeOptions, delOptions, err, pureVars>>

\* lines 110-124, 129-137, 304-316: getObjectMD calls back; on an error the
\* step ends, otherwise deleteObjectMD is called
GetObjectMDReturn(i, fault) ==
    /\ pc[i] = "getObjectMD"
    /\ LET c == LastCall(i)
           e == IF fault # None THEN fault ELSE mdGetErr(c.versionId)
       IN  IF e # None
           THEN /\ calls' = [calls EXCEPT ![i] = Returned(i, e)]
                /\ err' = [err EXCEPT ![i] = deleteNullVersionErr(e)]
                /\ pc' = [pc EXCEPT ![i] = "callback"]
                /\ UNCHANGED nullData
           ELSE /\ nullData' = [nullData EXCEPT ![i] =
                                  versionDataToDelete(mdLookup(c.versionId))]
                /\ calls' = [calls EXCEPT ![i] =
                               Append([Returned(i, "ok") EXCEPT
                                           ![Len(calls[i])].md =
                                               mdLookup(c.versionId)],
                                      [op |-> "del", versionId |-> c.versionId,
                                       md |-> NoObject, res |-> "pending"])]
                /\ pc' = [pc EXCEPT ![i] = awaitDeleteObjectMD]
                /\ UNCHANGED err
    /\ UNCHANGED <<vCfg, storeVars, nPuts, reqId, objMD, mst, options,
                   storeOptions, delOptions, pureVars>>

\* lines 138-145, 303-319: deleteObjectMD calls back
DeleteObjectMDReturn(i, fault) ==
    /\ pc[i] = "deleteObjectMD"
    /\ LET c == LastCall(i)
           e == IF fault # None THEN fault ELSE mdDeleteErr(c.versionId)
       IN  IF e # None
           THEN /\ calls' = [calls EXCEPT ![i] = Returned(i, e)]
                /\ err' = [err EXCEPT ![i] = deleteNullVersionErr(e)]
                /\ UNCHANGED <<storeVars, options>>
           ELSE /\ versions' = mdDeleteVersions(c.versionId)
                /\ master' = mdDeleteMaster(c.versionId)
                /\ calls' = [calls EXCEPT ![i] = Returned(i, "ok")]
                /\ options' = [options EXCEPT ![i].dataToDelete = nullData[i]]
                /\ UNCHANGED err
    /\ pc' = [pc EXCEPT ![i] = "callback"]
    /\ UNCHANGED <<vCfg, nPuts, reqId, objMD, mst, storeOptions, delOptions,
                   nullData, pureVars>>

\* lines 283, 321: callback(err, options)
Callback(i) ==
    /\ pc[i] = "callback"
    /\ pc' = [pc EXCEPT ![i] = IF err[i] = None THEN "done" ELSE "failed"]
    /\ UNCHANGED <<vCfg, storeVars, nPuts, reqId, objMD, mst, options,
                   storeOptions, delOptions, nullData, err, calls, pureVars>>

----------------------------------------------------------------------------
(* The caller: it writes the new object record with the returned options, *)
(* and the bucket's versioning configuration changes.                     *)

LocShapes == {"none", "single", "array"}

\* the location of the data request n uploaded
NewLocation(n, shape) ==
    CASE shape = "none" -> NoLoc
      [] shape = "single" -> Single(LocNames[n])
      [] OTHER -> Arr(<<LocNames[n], PartNames[n]>>)

\* the record the metadata store writes for request n under options opts:
\* a new version id when a version is created or the master is overwritten
\* as a null version, none on a bucket without versioning
NewRecord(n, opts, shape) ==
    [versionId |-> IF Truthy(opts.versioning) \/ opts.versionId = ""
                   THEN VidNames[n] ELSE Undef,
     uploadId |-> Undef,
     isNull |-> opts.isNull,
     nullVersionId |-> opts.nullVersionId,
     nullUploadId |-> opts.nullUploadId,
     location |-> NewLocation(n, shape)]

Write(i, shape) ==
    /\ pc[i] = "done"
    /\ LET rec == NewRecord(reqId[i], options[i], shape)
       IN  /\ master' = rec
           /\ versions' = IF Truthy(options[i].versioning)
                          THEN [versions EXCEPT ![rec.versionId] = rec]
                          ELSE versions
    /\ pc' = [pc EXCEPT ![i] = "written"]
    /\ UNCHANGED <<vCfg, nPuts, reqId, objMD, mst, options, storeOptions,
                   delOptions, nullData, err, calls, pureVars>>

SetVersioning(s) ==
    /\ vCfg # [Status |-> s]
    /\ vCfg' = [Status |-> s]
    /\ UNCHANGED <<storeVars, nPuts, reqVars, pureVars>>

----------------------------------------------------------------------------
(* Specifications *)

InitStore ==
    /\ vCfg = NoObject
    /\ master = NoObject
    /\ versions = [v \in VersionIds |-> NoObject]
    /\ nPuts = 0

InitRequests ==
    /\ reqId = [i \in Procs |-> 0]
    /\ pc = [i \in Procs |-> "idle"]
    /\ objMD = [i \in Procs |-> NoObject]
    /\ mst = [i \in Procs |-> getMasterState(NoObject)]
    /\ options = [i \in Procs |-> EmptyOptions]
    /\ storeOptions = [i \in Procs |-> NoObject]
    /\ delOptions = [i \in Procs |-> NoObject]
    /\ nullData = [i \in Procs |-> NoLoc]
    /\ err = [i \in Procs |-> None]
    /\ calls = [i \in Procs |-> <<>>]

\* the inputs of the harnesses a specification does not use
IdleDecide == inMD = NoObject /\ inStatus = Undef
IdleDelete == inVCfg = NoObject /\ inReqVersionId = Undef
IdleOverwrite == inParams = NoObject /\ inNow = NoObject

InitPure ==
    /\ IdleDecide
    /\ IdleDelete
    /\ IdleOverwrite
    /\ outState = NoObject

Init == InitStore /\ InitRequests /\ InitPure

\* one PUT at a time on the key (request 1 serves them in turn); metadata
\* calls may fail
Next ==
    \/ \E s \in {"Enabled", "Suspended"} : SetVersioning(s)
    \/ Start(1)
    \/ \E i \in Procs : StoreVersion(i)
    \/ \E i \in Procs, f \in StoreFaults \cup {None} : PutObjectMDReturn(i, f)
    \/ \E i \in Procs : DeleteNullVersion(i)
    \/ \E i \in Procs, f \in StoreFaults \cup {None} : GetObjectMDReturn(i, f)
    \/ \E i \in Procs, f \in StoreFaults \cup {None} : DeleteObjectMDReturn(i, f)
    \/ \E i \in Procs : Callback(i)
    \/ \E i \in Procs, shape \in LocShapes : Write(i, shape)

Spec == Init /\ [][Next]_vars

\* Spec with the scheduling of the code: a step scheduled on the event loop
\* (process.nextTick, async.series) is eventually run, and every call of
\* the metadata store eventually calls back
Fairness ==
    \A i \in Procs :
        /\ WF_vars(StoreVersion(i))
        /\ WF_vars(\E f \in StoreFaults \cup {None} : PutObjectMDReturn(i, f))
        /\ WF_vars(DeleteNullVersion(i))
        /\ WF_vars(\E f \in StoreFaults \cup {None} : GetObjectMDReturn(i, f))
        /\ WF_vars(\E f \in StoreFaults \cup {None} : DeleteObjectMDReturn(i, f))
        /\ WF_vars(Callback(i))

SpecFair == Spec /\ Fairness

\* concurrent PUTs on the key, at most two in flight (request 2 is one that
\* starts while request 1 is in flight); the metadata store fails only with
\* NoSuchKey
ConcShapes == {"none", "single"}

NextConc ==
    \/ \E s \in {"Enabled", "Suspended"} : SetVersioning(s)
    \/ Start(1)
    \/ ~Quiescent(1) /\ Start(2)
    \/ \E i \in Procs : StoreVersion(i)
    \/ \E i \in Procs : PutObjectMDReturn(i, None)
    \/ \E i \in Procs : DeleteNullVersion(i)
    \/ \E i \in Procs : GetObjectMDReturn(i, None)
    \/ \E i \in Procs : DeleteObjectMDReturn(i, None)
    \/ \E i \in Procs : Callback(i)
    \/ \E i \in Procs, shape \in ConcShapes : Write(i, shape)

SpecConc == Init /\ [][NextConc]_vars

\* the decision functions applied to every object record and status
PureVersionIds == {Undef, "V1", nonVersionedObjId}

PureRecords ==
    [versionId : PureVersionIds,
     uploadId : {Undef, "U1"},
     isNull : {Undef, True, "false"},
     nullVersionId : {Undef, "V2"},
     nullUploadId : {Undef, "U2"},
     location : {NoLoc, Single("L1"), Arr(<<"L1", "P1">>)}]

InitPureInputs ==
    /\ inMD \in PureRecords \cup {NoObject}
    /\ inStatus \in {"Enabled", "Suspended", Undef}
    /\ IdleDelete
    /\ IdleOverwrite
    /\ outState = NoObject

Decide ==
    /\ outState = NoObject
    /\ outState' = [mst |-> getMasterState(inMD),
                    decision |-> processVersioningState(getMasterState(inMD),
                                                        inStatus)]
    /\ UNCHANGED <<vCfg, storeVars, nPuts, reqVars, inMD, inStatus, inVCfg,
                   inReqVersionId, inParams, inNow>>

NextPure == Decide

InitDecide == InitStore /\ InitRequests /\ InitPureInputs

SpecPure == InitDecide /\ [][NextPure]_vars

\* preprocessingVersioningDelete applied to every existing object record,
\* configuration and requested version id
ReqVersionIds == {Undef, "", StrNull, "V1", "V7"}

InitDeleteInputs ==
    /\ inMD \in PureRecords
    /\ inStatus = Undef
    /\ inVCfg \in {NoObject, [Status |-> "Enabled"], [Status |-> "Suspended"]}
    /\ inReqVersionId \in ReqVersionIds
    /\ IdleOverwrite
    /\ outState = NoObject

DecideDelete ==
    /\ outState = NoObject
    /\ outState' = preprocessingVersioningDelete(inVCfg, inMD, inReqVersionId)
    /\ UNCHANGED <<vCfg, storeVars, nPuts, reqVars, inMD, inStatus, inVCfg,
                   inReqVersionId, inParams, inNow>>

NextDelete == DecideDelete

InitDelete == InitStore /\ InitRequests /\ InitDeleteInputs

SpecDelete == InitDelete /\ [][NextDelete]_vars

\* one PUT on a bucket without versioning configuration, whatever record
\* the master key holds
InitUnconfigured ==
    /\ vCfg = NoObject
    /\ master \in PureRecords \cup {NoObject}
    /\ versions = [v \in VersionIds |-> NoObject]
    /\ nPuts = 0
    /\ InitRequests
    /\ InitPure

NextUnconfigured ==
    \/ Start(1)
    \/ Callback(1)

SpecUnconfigured == InitUnconfigured /\ [][NextUnconfigured]_vars

\* overwritingVersioning applied to archived object records, to the
\* caller's parameters and at a time of the clock
RestoreDays ==
    {NoObject, Num(0), Num(1), Num(30), Num(MaxDateDays - 20000),
     Num(MaxDateDays)}

Archives ==
    {NoObject} \cup
    [archiveInfo : {Undef, "A1"},
     restoreRequestedAt : {NoObject, [time |-> [day |-> 19999, ms |-> 500]]},
     restoreRequestedDays : RestoreDays]

OverwriteRecords ==
    [versionId : {Undef, "", "V1"},
     isNull : {Undef, True},
     nullVersionId : {Undef, "V2"},
     creationTime : {"T0"},
     lastModified : {"T1"},
     archive : Archives]

StoreParams ==
    [size : {"S1"},
     versionId : {Undef},
     creationTime : {Undef, "T9"},
     lastModifiedDate : {Undef},
     updateMicroVersionId : {Undef},
     archive : {NoObject}]

Clock == {[day |-> 20000, ms |-> 0], [day |-> 20000, ms |-> 43200000]}

InitOverwriteInputs ==
    /\ inMD \in OverwriteRecords
    /\ inStatus = Undef
    /\ IdleDelete
    /\ inParams \in StoreParams
    /\ inNow \in Clock
    /\ outState = NoObject

\* the call assigns to the metadataStoreParams object of the caller
DecideOverwrite ==
    /\ outState = NoObject
    /\ LET r == overwritingVersioning(inMD, inParams, inNow)
       IN  /\ inParams' = r.params
           /\ outState' = [options |-> r.options,
                           given |-> [objMD |-> inMD,
                                      metadataStoreParams |-> inParams]]
    /\ UNCHANGED <<vCfg, storeVars, nPuts, reqVars, inMD, inStatus, inVCfg,
                   inReqVersionId, inNow>>

NextOverwrite == DecideOverwrite

InitOverwrite == InitStore /\ InitRequests /\ InitOverwriteInputs

SpecOverwrite == InitOverwrite /\ [][NextOverwrite]_vars

----------------------------------------------------------------------------
(* Properties *)

CallSet(i) == {calls[i][k] : k \in 1..Len(calls[i])}

Failure(res) == res \notin {"pending", "ok"}

\* C1: when the put of the retiring null version fails, the callback
\* receives that failure, and the request issues no metadata get or delete.
C1_StoreFailurePropagates ==
    \A i \in Procs : \A c \in CallSet(i) :
        (c.op = "put" /\ Failure(c.res)) =>
            /\ pc[i] \in {"callback", "failed"}
            /\ err[i] = c.res
            /\ \A d \in CallSet(i) : d.op \notin {"get", "del"}

C1_Witness ==
    \E i \in Procs :
        /\ pc[i] = "failed"
        /\ storeOptions[i] # NoObject
        /\ err[i] = "ServiceUnavailable"
        /\ \E c \in CallSet(i) : c.op = "put" /\ c.res = "ServiceUnavailable"

\* C2: whenever the delete of the null version's metadata fails with
\* NoSuchKey, the callback receives no error and options.dataToDelete lists
\* no location, whether the master is itself the null version or references
\* a separate one.
C2_NotFoundReclaimsNothing ==
    \A i \in Procs :
        (/\ delOptions[i] # NoObject
         /\ \E c \in CallSet(i) : c.op = "del" /\ c.res = "NoSuchKey") =>
            /\ err[i] = None
            /\ LocSet(options[i].dataToDelete) = {}

\* C2, the part the code keeps: the same, for a null version that is a
\* version apart from the master (its id differs from the master's).
C2_SeparateNullVersionReclaimsNothing ==
    \A i \in Procs :
        (/\ delOptions[i] # NoObject
         /\ delOptions[i].versionId # mst[i].versionId
         /\ \E c \in CallSet(i) : c.op \in {"get", "del"} /\ c.res = "NoSuchKey") =>
            /\ err[i] = None
            /\ LocSet(options[i].dataToDelete) = {}

\* C3: with concurrent requests on the key and a metadata store whose only
\* failure is the absence of the record, no request calls back with an
\* error: a null version another request already deleted fails nobody.
C3_CleanupRaceFailsNobody ==
    \A i \in Procs : err[i] = None /\ pc[i] # "failed"

C3_Witness ==
    /\ \A i \in Procs : pc[i] \in {"done", "written"}
    /\ objMD[1] = objMD[2]
    /\ delOptions[1] # NoObject
    /\ delOptions[1] = delOptions[2]
    /\ \E c \in CallSet(1) : c.op = "del" /\ c.res = "ok"
    /\ \E c \in CallSet(2) : c.op = "del" /\ c.res = "NoSuchKey"

\* C4: when the get or the delete of the superseded null version fails with
\* an error other than NoSuchKey, the callback receives InternalError,
\* whatever the error was.
C4_CleanupFailureIsInternalError ==
    \A i \in Procs : \A c \in CallSet(i) :
        (c.op \in {"get", "del"} /\ Failure(c.res) /\ c.res # "NoSuchKey") =>
            /\ pc[i] \in {"callback", "failed"}
            /\ err[i] = "InternalError"

C4_Witness ==
    \E i \in Procs :
        /\ pc[i] = "failed"
        /\ err[i] = "InternalError"
        /\ \E c \in CallSet(i) : c.op = "get" /\ c.res = "ServiceUnavailable"

OpRank(op) == CASE op = "put" -> 1 [] op = "get" -> 2 [] OTHER -> 3

\* C5: a request's metadata calls are sequential: a call is issued only
\* when every earlier one has called back; puts come before gets and gets
\* before deletes, at most one of each; and the callback is invoked only
\* when no call is pending.
C5_CallsAreSequential ==
    \A i \in Procs :
        /\ \A k \in 1..Len(calls[i]) :
               k < Len(calls[i]) => calls[i][k].res # "pending"
        /\ \A k, l \in 1..Len(calls[i]) :
               k < l => OpRank(calls[i][k].op) < OpRank(calls[i][l].op)
        /\ pc[i] \in {"callback", "done", "failed", "written"} =>
               \A c \in CallSet(i) : c.res # "pending"

C5_Witness ==
    \E i \in Procs :
        /\ pc[i] = "done"
        /\ Len(calls[i]) = 2
        /\ calls[i][1].op = "get" /\ calls[i][1].res = "ok"
        /\ calls[i][2].op = "del" /\ calls[i][2].res = "ok"

\* the data locations the metadata records of the object reference
RecordLocs(md) == IF md = NoObject THEN {} ELSE LocSet(md.location)

ReferencedLocs ==
    RecordLocs(master) \cup UNION {RecordLocs(versions[v]) : v \in VersionIds}

\* C6: with one PUT at a time, once the caller has written the new record
\* with the returned options, no location of options.dataToDelete is
\* referenced by the master key or a version key.
C6_DataToDeleteUnreferenced ==
    \A i \in Procs :
        pc[i] = "written" =>
            LocSet(options[i].dataToDelete) \cap ReferencedLocs = {}

C6_Witness ==
    \E i \in Procs :
        /\ pc[i] = "written"
        /\ LocSet(options[i].dataToDelete) # {}
        /\ \E c \in CallSet(i) : c.op = "get" /\ c.res = "ok"
        /\ \E v \in VersionIds : versions[v] # NoObject

\* C7: a request whose decision has storeOptions calls back without error
\* only after a successful put, under version key storeOptions.versionId,
\* of the master record with versionId and isNull (= true) overridden and
\* nothing else changed; that copy is in the store when the caller writes.
C7_TransitionalCopy ==
    \A i \in Procs :
        (pc[i] \in {"done", "written"} /\ storeOptions[i] # NoObject) =>
            LET copy == [versionId |-> storeOptions[i].versionId,
                         uploadId |-> objMD[i].uploadId,
                         isNull |-> True,
                         nullVersionId |-> objMD[i].nullVersionId,
                         nullUploadId |-> objMD[i].nullUploadId,
                         location |-> objMD[i].location]
            IN  /\ calls[i] = <<[op |-> "put",
                                 versionId |-> storeOptions[i].versionId,
                                 md |-> copy, res |-> "ok"]>>
                /\ versions[storeOptions[i].versionId] = copy

C7_Witness ==
    \E i \in Procs :
        /\ pc[i] = "done"
        /\ storeOptions[i] # NoObject
        /\ storeOptions[i].versionId = nonVersionedObjId
        /\ objMD[i].versionId = Undef
        /\ TruthyLoc(objMD[i].location)

NullKeys ==
    {v \in VersionIds : versions[v] # NoObject /\ Truthy(versions[v].isNull)}

MasterIsNull == master # NoObject /\ Truthy(master.isNull)

\* C8: with one PUT at a time, between PUTs (each one preprocessed and then
\* written by the caller) at most one record of the object is a null
\* version, and it is the master or the version the master's nullVersionId
\* names.
C8_NullVersionUnique ==
    (\A i \in Procs : Quiescent(i)) =>
        /\ Cardinality(NullKeys) + (IF MasterIsNull THEN 1 ELSE 0) <= 1
        /\ \A v \in NullKeys : master # NoObject /\ master.nullVersionId = v

C8_Witness ==
    /\ \A i \in Procs : Quiescent(i)
    /\ master # NoObject
    /\ master.nullVersionId = "V1"
    /\ NullKeys = {"V1"}
    /\ nPuts >= 3

\* C9: processVersioningState, status Suspended, master absent, unversioned
\* or a null version: options are exactly {versionId: '', isNull: true,
\* dataToDelete: the master's objLocation}, there is no storeOptions, and
\* delOptions is returned exactly when the master is a null version, with
\* the master's versionId and, as replayId, its uploadId if it has one.
C9_SuspendedOverwrite ==
    (/\ outState # NoObject
     /\ inStatus = "Suspended"
     /\ (outState.mst.versionId = Undef \/ Truthy(outState.mst.isNull))) =>
        LET m == outState.mst
            d == outState.decision
        IN  /\ d.options = [versionId |-> "", isNull |-> True,
                            versioning |-> Undef, nullVersionId |-> Undef,
                            nullUploadId |-> Undef,
                            dataToDelete |-> m.objLocation]
            /\ d.storeOptions = NoObject
            /\ (d.delOptions # NoObject) <=> Truthy(m.isNull)
            /\ d.delOptions # NoObject =>
                   /\ d.delOptions.versionId = m.versionId
                   /\ d.delOptions.replayId =
                          (IF Truthy(m.uploadId) THEN m.uploadId ELSE Undef)

C9_Witness ==
    /\ outState # NoObject
    /\ inStatus = "Suspended"
    /\ inMD # NoObject
    /\ inMD.isNull = True /\ inMD.versionId = "V1" /\ inMD.uploadId = "U1"
    /\ outState.decision.delOptions = [versionId |-> "V1", replayId |-> "U1"]

\* C10: processVersioningState, status Enabled, master absent, unversioned
\* or a null version: options.versioning is true, there is no delOptions,
\* and storeOptions is returned exactly when a master exists, with isNull
\* true and as versionId the master's own when it is a null version and the
\* reserved id otherwise; options.nullVersionId is that id.
C10_EnabledCreate ==
    (/\ outState # NoObject
     /\ inStatus = "Enabled"
     /\ (outState.mst.versionId = Undef \/ Truthy(outState.mst.isNull))) =>
        LET m == outState.mst
            d == outState.decision
        IN  /\ d.options.versioning = True
            /\ d.delOptions = NoObject
            /\ (d.storeOptions # NoObject) <=> (inMD # NoObject)
            /\ d.storeOptions # NoObject =>
                   /\ d.storeOptions.isNull = True
                   /\ d.storeOptions.versionId =
                          (IF Truthy(m.isNull) THEN m.versionId
                           ELSE nonVersionedObjId)
                   /\ d.options.nullVersionId = d.storeOptions.versionId

C10_Witness ==
    /\ outState # NoObject
    /\ inStatus = "Enabled"
    /\ inMD # NoObject
    /\ inMD.isNull = True /\ inMD.versionId = "V1"
    /\ outState.decision.storeOptions = [versionId |-> "V1", isNull |-> True]

\* C11: processVersioningState, master versioned and not a null version:
\* no storeOptions and no dataToDelete.  Suspended: options are exactly
\* {versionId: '', isNull: true}, and delOptions is returned exactly when
\* the master has a nullVersionId, with that id and, as replayId, the
\* master's nullUploadId if it has one.  Enabled: options.versioning is
\* true, nullVersionId and nullUploadId are the master's, no delOptions.
C11_VersionedMaster ==
    (/\ outState # NoObject
     /\ inStatus \in {"Enabled", "Suspended"}
     /\ outState.mst.versionId # Undef
     /\ ~Truthy(outState.mst.isNull)) =>
        LET m == outState.mst
            d == outState.decision
        IN  /\ d.storeOptions = NoObject
            /\ d.options.dataToDelete = NoLoc
            /\ inStatus = "Suspended" =>
                   /\ d.options = [versionId |-> "", isNull |-> True,
                                   versioning |-> Undef,
                                   nullVersionId |-> Undef,
                                   nullUploadId |-> Undef,
                                   dataToDelete |-> NoLoc]
                   /\ (d.delOptions # NoObject) <=> (m.nullVersionId # Undef)
                   /\ d.delOptions # NoObject =>
                          /\ d.delOptions.versionId = m.nullVersionId
                          /\ d.delOptions.replayId = m.nullUploadId
            /\ inStatus = "Enabled" =>
                   /\ d.options = [versionId |-> Undef, isNull |-> Undef,
                                   versioning |-> True,
                                   nullVersionId |-> m.nullVersionId,
                                   nullUploadId |-> m.nullUploadId,
                                   dataToDelete |-> NoLoc]
                   /\ d.delOptions = NoObject

C11_Witness ==
    /\ outState # NoObject
    /\ inStatus = "Enabled"
    /\ inMD # NoObject
    /\ inMD.versionId = "V1" /\ inMD.isNull = "false"
    /\ inMD.nullVersionId = "V2" /\ inMD.nullUploadId = "U2"
    /\ outState.decision.options.nullVersionId = "V2"
    /\ outState.decision.options.nullUploadId = "U2"

\* C12: for an existing object record, preprocessingVersioningDelete calls
\* back with NoSuchKey exactly when the bucket has a versioning
\* configuration, the requested version id is 'null', and the master has a
\* version id, is not a null version and has no nullVersionId; otherwise it
\* calls back with options and no error.
C12_NoSuchKeyIffNoNullVersion ==
    outState # NoObject =>
        /\ (outState.err = "NoSuchKey") <=>
               (/\ inVCfg # NoObject
                /\ inReqVersionId = StrNull
                /\ inMD.versionId # Undef
                /\ ~Truthy(inMD.isNull)
                /\ ~Truthy(inMD.nullVersionId))
        /\ outState.err \in {None, "NoSuchKey"}
        /\ (outState.err = None) <=> (outState.options # NoObject)

C12_Witness ==
    /\ outState # NoObject
    /\ outState.err = "NoSuchKey"
    /\ inVCfg = [Status |-> "Enabled"]
    /\ inMD.versionId = "V1" /\ inMD.uploadId = "U1"

\* C13: versioning configured and version id 'null' requested: a record
\* without version id gives exactly {deleteData: true}; otherwise a null
\* master gives deleteData, its versionId and, as replayId, its uploadId if
\* any; otherwise a master with a nullVersionId gives deleteData, that id
\* and, as replayId, its nullUploadId if any.
C13_NullTargetPriority ==
    (outState # NoObject /\ inVCfg # NoObject /\ inReqVersionId = StrNull) =>
        LET o == outState.options
        IN  IF inMD.versionId = Undef
            THEN o = [deleteData |-> True, versionId |-> Undef,
                      isNull |-> Undef, replayId |-> Undef]
            ELSE IF Truthy(inMD.isNull)
            THEN /\ o.deleteData = True
                 /\ o.versionId = inMD.versionId
                 /\ o.replayId = inMD.uploadId
            ELSE IF Truthy(inMD.nullVersionId)
            THEN /\ o.deleteData = True
                 /\ o.versionId = inMD.nullVersionId
                 /\ o.replayId = inMD.nullUploadId
            ELSE TRUE

C13_Witness ==
    /\ outState # NoObject /\ inVCfg # NoObject /\ inReqVersionId = StrNull
    /\ inMD.versionId = "V1" /\ inMD.isNull = True
    /\ inMD.nullVersionId = "V2" /\ inMD.uploadId = "U1"
    /\ outState.options.versionId = "V1"
    /\ outState.options.replayId = "U1"

\* C14: preprocessingVersioningDelete gives exactly {deleteData: true}
\* without a versioning configuration, whatever version id is requested;
\* deleteData, versionId = the requested id and replayId = the record's
\* uploadId if any when versioning is configured and a version id other
\* than 'null' is requested; and empty options when versioning is
\* configured and no version id is requested.
C14_DeleteOptions ==
    outState # NoObject =>
        LET o == outState.options
        IN  /\ inVCfg = NoObject =>
                   /\ outState.err = None
                   /\ o = [deleteData |-> True, versionId |-> Undef,
                           isNull |-> Undef, replayId |-> Undef]
            /\ (inVCfg # NoObject /\ inReqVersionId \in {"V1", "V7"}) =>
                   /\ outState.err = None
                   /\ o = [deleteData |-> True, versionId |-> inReqVersionId,
                           isNull |-> Undef, replayId |-> inMD.uploadId]
            /\ (inVCfg # NoObject /\ inReqVersionId \in {Undef, ""}) =>
                   /\ outState.err = None
                   /\ o = [deleteData |-> Undef, versionId |-> Undef,
                           isNull |-> Undef, replayId |-> Undef]

C14_Witness ==
    /\ outState # NoObject
    /\ inVCfg = [Status |-> "Suspended"]
    /\ inReqVersionId = "V7"
    /\ inMD.uploadId = "U1" /\ inMD.versionId = "V1"
    /\ outState.options.versionId = "V7"
    /\ outState.options.replayId = "U1"

\* C15: without a versioning configuration versioningPreprocessing calls
\* back with exactly {dataToDelete: the master's objLocation} and no error,
\* and issues no metadata call, whatever the master record is.
C15_UnconfiguredBucket ==
    \A i \in Procs :
        pc[i] \in {"callback", "done"} =>
            /\ calls[i] = <<>>
            /\ err[i] = None
            /\ options[i] =
                   [versionId |-> Undef, isNull |-> Undef, versioning |-> Undef,
                    nullVersionId |-> Undef, nullUploadId |-> Undef,
                    dataToDelete |->
                        IF objMD[i] = NoObject \/ objMD[i].location = NoLoc
                        THEN NoLoc
                        ELSE Arr(objMD[i].location.els)]

C15_Witness ==
    \E i \in Procs :
        /\ pc[i] = "done"
        /\ objMD[i] # NoObject
        /\ objMD[i].isNull = True /\ objMD[i].versionId = "V1"
        /\ objMD[i].nullVersionId = "V2"
        /\ options[i].dataToDelete = Arr(<<"L1">>)

C18_RestoreExpiry ==
    (/\ outState # NoObject
     /\ inMD.archive # NoObject
     /\ inMD.archive.restoreRequestedDays # NoObject) =>
        LET a == inParams.archive
        IN  /\ outState.options =
                   [versionId |-> IF inMD.versionId \in {Undef, ""} THEN Undef
                                  ELSE inMD.versionId,
                    isNull |-> inMD.isNull,
                    nullVersionId |-> inMD.nullVersionId]
            /\ a.archiveInfo = inMD.archive.archiveInfo
            /\ a.restoreRequestedAt = inMD.archive.restoreRequestedAt
            /\ a.restoreRequestedDays = inMD.archive.restoreRequestedDays
            /\ a.restoreCompletedAt = [time |-> inNow]
            /\ a.restoreWillExpireAt =
                   [time |-> [day |-> inNow.day + inMD.archive.restoreRequestedDays.n,
                              ms |-> inNow.ms]]

\* C18, the part the code keeps: the same, for the numbers of days that
\* leave the expiry within the range of Dates.
C18_RestoreExpiryWithinDateRange ==
    (/\ outState # NoObject
     /\ inMD.archive # NoObject
     /\ inMD.archive.restoreRequestedDays # NoObject
     /\ inNow.day + inMD.archive.restoreRequestedDays.n < MaxDateDays) =>
        LET a == inParams.archive
        IN  /\ outState.options =
                   [versionId |-> IF inMD.versionId \in {Undef, ""} THEN Undef
                                  ELSE inMD.versionId,
                    isNull |-> inMD.isNull,
                    nullVersionId |-> inMD.nullVersionId]
            /\ a.archiveInfo = inMD.archive.archiveInfo
            /\ a.restoreRequestedAt = inMD.archive.restoreRequestedAt
            /\ a.restoreRequestedDays = inMD.archive.restoreRequestedDays
            /\ a.restoreCompletedAt = [time |-> inNow]
            /\ a.restoreWillExpireAt =
                   [time |-> [day |-> inNow.day + inMD.archive.restoreRequestedDays.n,
                              ms |-> inNow.ms]]

\* the calls of an operation request i has made, in order
OpsOf(i, op) == {k \in 1..Len(calls[i]) : calls[i][k].op = op}

\* the cleanup step of request i has started
CleanupStarted(i) ==
    /\ delOptions[i] # NoObject
    /\ pc[i] \in {"getObjectMD", "deleteObjectMD", "callback", "done",
                  "failed", "written"}
    /\ \A k \in OpsOf(i, "put") : calls[i][k].res = "ok"

\* C19: in the cleanup step a metadata get is issued if and only if
\* delOptions.versionId differs from the master's versionId; when they are
\* equal the master's objLocation is the data to reclaim, without a read.
\* When the record read has no location the delete is still issued and, if
\* it succeeds, the callback succeeds with no dataToDelete; otherwise
\* dataToDelete is the record's location as an array.
C19_CleanupRead ==
    \A i \in Procs :
        CleanupStarted(i) =>
            /\ (OpsOf(i, "get") # {}) <=>
                   (delOptions[i].versionId # mst[i].versionId)
            /\ (OpsOf(i, "get") = {} /\ pc[i] \in {"done", "written"}) =>
                   /\ OpsOf(i, "del") # {}
                   /\ options[i].dataToDelete = mst[i].objLocation
            /\ \A k \in OpsOf(i, "get") :
                   calls[i][k].res = "ok" =>
                       /\ k + 1 \in OpsOf(i, "del")
                       /\ calls[i][k + 1].versionId = delOptions[i].versionId
                       /\ (calls[i][k + 1].res = "ok" =>
                              /\ pc[i] \in {"callback", "done", "written"}
                              /\ err[i] = None
                              /\ options[i].dataToDelete =
                                     IF calls[i][k].md.location = NoLoc
                                     THEN NoLoc
                                     ELSE IF calls[i][k].md.location.tag = "array"
                                          THEN calls[i][k].md.location
                                          ELSE Arr(<<calls[i][k].md.location.els[1]>>))

C19_Witness ==
    /\ pc[1] = "done"
    /\ \E k \in OpsOf(1, "get") :
           /\ calls[1][k].res = "ok"
           /\ calls[1][k].md.location = NoLoc
           /\ calls[1][k + 1].op = "del"
           /\ calls[1][k + 1].res = "ok"
    /\ options[1].dataToDelete = NoLoc

\* C20: no double reclaim under the cleanup race: of two overlapping
\* requests that both carry delOptions for the same null version, at most
\* one is called back with the null version's data locations in
\* dataToDelete.
C20_NoDoubleReclaim ==
    (/\ pc[1] \in {"done", "written"}
     /\ pc[2] \in {"done", "written"}
     /\ objMD[1] = objMD[2]
     /\ delOptions[1] # NoObject
     /\ delOptions[1] = delOptions[2]) =>
        LocSet(options[1].dataToDelete) \cap LocSet(options[2].dataToDelete) = {}

\* C20, the part the code keeps: when the null version is a version apart
\* from the master, only the request whose delete succeeded reclaims its
\* data.
C20_SeparateNullVersionNoDoubleReclaim ==
    (/\ pc[1] \in {"done", "written"}
     /\ pc[2] \in {"done", "written"}
     /\ objMD[1] = objMD[2]
     /\ delOptions[1] # NoObject
     /\ delOptions[1] = delOptions[2]
     /\ delOptions[1].versionId # mst[1].versionId) =>
        LocSet(options[1].dataToDelete) \cap LocSet(options[2].dataToDelete) = {}

\* C21: for every master state and every status, processVersioningState
\* never returns both storeOptions and delOptions: storeOptions appear only
\* when the status is not Suspended and delOptions only when it is, and
\* every status other than 'Suspended' (an undefined one included) takes
\* the Enabled branches.
C21_StoreOrDeleteNeverBoth ==
    outState # NoObject =>
        LET d == outState.decision
        IN  /\ ~(d.storeOptions # NoObject /\ d.delOptions # NoObject)
            /\ d.storeOptions # NoObject => inStatus # "Suspended"
            /\ d.delOptions # NoObject => inStatus = "Suspended"
            /\ inStatus # "Suspended" =>
                   /\ d = processVersioningState(outState.mst, "Enabled")
                   /\ d.options.versioning = True
                   /\ d.options.versionId = Undef

C21_Witness ==
    /\ outState # NoObject
    /\ inStatus = Undef
    /\ outState.mst.exists = True
    /\ outState.decision.storeOptions # NoObject
    /\ outState.decision.delOptions = NoObject

\* C21 in the pipeline: one invocation of versioningPreprocessing never
\* calls both putObjectMD and deleteObjectMD or getObjectMD.
C21_PutsOrDeletes ==
    \A i \in Procs :
        ~(OpsOf(i, "put") # {} /\ (OpsOf(i, "del") \cup OpsOf(i, "get")) # {})

\* the state of the pipeline of request i: Init while the store step runs,
\* Stored while the delete step runs, Deleted when both are over without an
\* error, Failed once a step has ended with an error, Done after
\* callback(null, options)
Phase(i) ==
    CASE pc[i] \in {"storeVersion", "putObjectMD"} -> "Init"
      [] pc[i] \in {"deleteNullVersion", "getObjectMD", "deleteObjectMD"} -> "Stored"
      [] pc[i] = "callback" /\ err[i] = None -> "Deleted"
      [] pc[i] = "callback" /\ err[i] # None -> "Failed"
      [] pc[i] = "failed" -> "Failed"
      [] pc[i] \in {"done", "written"} -> "Done"
      [] pc[i] = "idle" -> "Idle"
      [] OTHER -> "Stalled"

PhaseSteps ==
    {<<"Idle", "Init">>, <<"Idle", "Deleted">>, <<"Init", "Stored">>,
     <<"Init", "Failed">>, <<"Stored", "Deleted">>, <<"Stored", "Failed">>,
     <<"Deleted", "Done">>}

InFlight(i) ==
    pc[i] \in {"storeVersion", "putObjectMD", "deleteNullVersion",
               "getObjectMD", "deleteObjectMD", "callback"}

\* the callback of request i is invoked in this step
CallbackInvoked(i) == pc[i] # pc'[i] /\ pc'[i] \in {"done", "failed"}

\* C22: when every metadata-store call eventually calls back, every
\* invocation of versioningPreprocessing eventually invokes its callback,
\* exactly once, ending in Done (no error) or Failed (error); it goes along
\* Init -> Stored -> Deleted -> Done, Failed being entered from the store
\* step and the delete step only; and the callback is never invoked while
\* a metadata-store call of the invocation is pending.
C22_CallbackExactlyOnce ==
    /\ [](\A i \in Procs :
             /\ pc[i] \in {"callback", "done", "failed"} =>
                    \A c \in CallSet(i) : c.res # "pending"
             /\ pc[i] = "done" => err[i] = None
             /\ pc[i] = "failed" => err[i] # None)
    /\ [][\A i \in Procs :
             /\ (reqId'[i] = reqId[i] /\ Phase(i)' # Phase(i)) =>
                    <<Phase(i), Phase(i)'>> \in PhaseSteps
             /\ (reqId'[i] = reqId[i] /\ Phase(i)' = "Failed"
                     /\ Phase(i) # "Failed") =>
                    pc[i] \in {"putObjectMD", "getObjectMD", "deleteObjectMD"}
             /\ CallbackInvoked(i) =>
                    /\ pc[i] = "callback"
                    /\ \A c \in CallSet(i) : c.res # "pending"
             /\ (reqId'[i] = reqId[i] /\ pc[i] \in {"done", "failed", "written"}) =>
                    ~CallbackInvoked(i)]_vars
    /\ \A i \in Procs : InFlight(i) ~> (pc[i] \in {"done", "failed"})

C22_Witness ==
    /\ pc[1] = "failed"
    /\ err[1] = "InternalError"
    /\ Len(calls[1]) = 2
    /\ calls[1][1].op = "get" /\ calls[1][1].res = "ok"
    /\ calls[1][2].op = "del" /\ calls[1][2].res = "ServiceUnavailable"

============================================================================
